---- MODULE Spec2Model ----
(***************************************************************************)
(* Model of pkg/networkengine/util/utils.go (package networkutil): the     *)
(* diff-and-converge operations ApplyRules, ApplyRoutes and ApplyFDBs, the *)
(* listers ListRulesOnNode, ListRoutesOnNode and ListFDBsOnNode, and the   *)
(* teardown operations CleanRoutesOnNode and CleanRulesOnNode.             *)
(*                                                                         *)
(* A behaviour follows the converge loop of one resource class (rule,      *)
(* route or fdb): the three classes share no kernel object and no mapping. *)
(* The caller holds one desired mapping and one current mapping; it lists, *)
(* calls Apply*, or calls Clean*, over and over.  One call is in flight at *)
(* a time (the package is synchronous); every transport operation of a     *)
(* call is one step, so every intermediate kernel state is a state here.   *)
(* SpecRace adds a second caller that converges the same table, and        *)
(* SpecTwin runs a teardown call and the converge call with an empty       *)
(* desired mapping side by side.                                           *)
(***************************************************************************)
EXTENDS Integers, Sequences, FiniteSets, TLC

VARIABLES
    class,      \* resource class of this behaviour: "rule", "route", "fdb"
    rules,      \* kernel: the set of policy-routing rules
    routes,     \* kernel: the set of routes
    neighs,     \* kernel: the set of bridge neighbour (FDB) entries
    desired,    \* the caller's desired mapping (key -> object)
    current,    \* the caller's current mapping (key -> object)
    scope,      \* the table id (or link index) current was listed for
    fn,         \* function in flight or last returned
    pc,         \* "idle", "desired", "remove", "done", "panic"
    visited,    \* keys already taken by the running range loop
    errList,    \* errorlist.List of the call
    ops,        \* transport operations issued by the call, in order
    ret,        \* the error the call returned; NoReturn before it returns
    pre,        \* kernel and current mapping when the call was entered
    failures,   \* transport failures injected so far
    again,      \* what the last listing follows: "no", "called", "nil", "ok" (see Relisted)
    other       \* a second caller of the package (see SpecRace)

vars == <<class, rules, routes, neighs, desired, current, scope, fn, pc,
          visited, errList, ops, ret, pre, failures, again, other>>

(***************************************************************************)
(* Bounds of the model.                                                    *)
(***************************************************************************)
MaxPre == 2     \* objects the kernel holds before the first call
MaxFail == 2    \* transient transport failures in one behaviour

Nil == "<nil>"
EmptyMap == [k \in {} |-> Nil]
\* MapDelete that leaves the mapping as it is.
MapDelete_Keep(m, k) == m

MapDelete(m, k) == [x \in DOMAIN m \ {k} |-> m[x]]
Range(m) == {m[k] : k \in DOMAIN m}

Tables == {100, 101}

(***************************************************************************)
(* Rules.  netlink.Rule as NewRavenRule builds it: Priority, Table, and    *)
(* an optional source prefix (Src, a *net.IPNet, Nil when absent).         *)
(***************************************************************************)
Priorities == {1, 2}
SrcPrefixes == {"10.1.0.0/16"}
\* Table 100 is the table being reconciled; table 101 holds foreign rules.
Rule ==
    [Priority : Priorities, Table : {100}, Src : SrcPrefixes \cup {Nil}]
    \cup [Priority : {1}, Table : {101}, Src : SrcPrefixes \cup {Nil}]

NewRavenRule(rulePriority, routeTableID) ==
    [Priority |-> rulePriority, Table |-> routeTableID, Src |-> Nil]

RuleKey(rule) == IF rule.Src # Nil THEN rule.Src ELSE "0.0.0.0/0"

(***************************************************************************)
(* Routes.  netlink.Route: Dst is a *net.IPNet (NilIPNet stands for the    *)
(* nil pointer of a route without destination prefix), Gw and Src are      *)
(* net.IP (Nil when absent).  The mask is kept as its hexadecimal bytes.   *)
(***************************************************************************)
NilIPNet == [IP |-> Nil, Mask |-> Nil]
IPNets == {[IP |-> "10.0.0.0", Mask |-> "ffffff00"]}
Gateways == {"1.1.1.1", "2.2.2.2"}
SrcIPs == {"192.168.0.1"}
LinkIndexes == {1, 2}

BaseShape == [Gw |-> "1.1.1.1", Src |-> Nil, LinkIndex |-> 1]
\* The base shape and the shapes that differ from it in exactly one field.
Shapes ==
    {s \in [Gw : Gateways \cup {Nil}, Src : SrcIPs \cup {Nil}, LinkIndex : LinkIndexes] :
        Cardinality({f \in {"Gw", "Src", "LinkIndex"} : s[f] # BaseShape[f]}) <= 1}

MkRoute(dst, s, table) ==
    [Dst |-> dst, Gw |-> s.Gw, Src |-> s.Src, LinkIndex |-> s.LinkIndex, Table |-> table]

\* Table 100 is the table being reconciled; table 101 holds a foreign route.
Route ==
    {MkRoute(d, s, 100) : d \in IPNets, s \in Shapes}
    \cup {MkRoute(NilIPNet, s, 100) : s \in {x \in Shapes : x.Src = Nil /\ x.LinkIndex = 1 /\ x.Gw # Nil}}
    \cup {MkRoute(d, BaseShape, 101) : d \in IPNets}

\* net.IPMask.Size for the canonical masks in use.
SimpleMaskLength(mask) ==
    CASE mask = "ffffff00" -> "24"
      [] mask = "ffff0000" -> "16"
      [] OTHER -> mask

\* (*net.IPNet).String, and what fmt prints for a nil pointer.
IPNetString(n) == IF n = NilIPNet THEN Nil ELSE n.IP \o "/" \o SimpleMaskLength(n.Mask)

RouteKey(route) == IPNetString(route.Dst) \o "-" \o ToString(route.Table)

\* routeEqual dereferences x.Dst and y.Dst before anything else.
routeEqualPanics(x, y) == x.Dst = NilIPNet \/ y.Dst = NilIPNet

\* routeEqual without the gateway comparison.
routeEqual_NoGw(x, y) ==
    /\ x.Dst.IP = y.Dst.IP
    /\ x.Dst.Mask = y.Dst.Mask
    /\ x.LinkIndex = y.LinkIndex

\* routeEqual that compares the link index with the table id.
routeEqual_LinkTable(x, y) ==
    /\ x.Dst.IP = y.Dst.IP
    /\ x.Gw = y.Gw
    /\ x.Dst.Mask = y.Dst.Mask
    /\ x.LinkIndex = y.Table

\* routeEqual that compares the source IP as well.
routeEqual_Src(x, y) ==
    /\ x.Dst.IP = y.Dst.IP
    /\ x.Gw = y.Gw
    /\ x.Dst.Mask = y.Dst.Mask
    /\ x.LinkIndex = y.LinkIndex
    /\ x.Src = y.Src

routeEqual(x, y) ==
    /\ x.Dst.IP = y.Dst.IP
    /\ x.Gw = y.Gw
    /\ x.Dst.Mask = y.Dst.Mask
    /\ x.LinkIndex = y.LinkIndex

(***************************************************************************)
(* FDB entries.  netlink.Neigh of the bridge family: IP, HardwareAddr and  *)
(* the index of the owning link.                                           *)
(***************************************************************************)
AllZeroMAC == "00:00:00:00:00:00"
MACs == {AllZeroMAC, "aa:bb:cc:dd:ee:ff"}
NeighIPs == {"172.16.0.1", "172.16.0.2"}
Links == {1, 2}
Neigh == [IP : NeighIPs, HardwareAddr : MACs, LinkIndex : Links]

(***************************************************************************)
(* errorlist.List: Append drops a nil error, AsError is nil when empty.    *)
(***************************************************************************)
ErrAppend(list, err) == IF err = Nil THEN list ELSE Append(list, err)
\* The error a call returns: nil, or the list of what failed.
NilError == [nil |-> TRUE, list |-> <<>>]
AsError(list) == IF Len(list) = 0 THEN NilError ELSE [nil |-> FALSE, list |-> list]
\* The result slot of a call that has not returned.
NoReturn == [nil |-> FALSE, list |-> <<>>]

\* fmt.Errorf("<what>: %s", err)
Errorf(what, err) == what \o ": " \o err

(***************************************************************************)
(* The netlink transport (package netlinkutil) and the kernel behind it.   *)
(* `inject` is a transient failure of the request; otherwise the kernel    *)
(* answers.  Each operator gives the new kernel set and the error.         *)
(* A rule is identified by all its fields; a route by destination and      *)
(* table (replace is an upsert on that key, delete names the exact route); *)
(* an FDB entry by all its fields (append of an entry that exists changes  *)
(* nothing and succeeds).                                                  *)
(***************************************************************************)
Reply(K, err) == [k |-> K, err |-> err]

RuleAdd(K, rule, inject) ==
    IF inject THEN Reply(K, "EIO")
    ELSE IF rule \in K THEN Reply(K, "EEXIST")
    ELSE Reply(K \cup {rule}, Nil)

RuleDel(K, rule, inject) ==
    IF inject THEN Reply(K, "EIO")
    ELSE IF rule \notin K THEN Reply(K, "ENOENT")
    ELSE Reply(K \ {rule}, Nil)

RuleListFiltered(K, routeTableID) == {r \in K : r.Table = routeTableID}

SameRoute(x, y) == x.Dst = y.Dst /\ x.Table = y.Table

RouteAdd(K, route, inject) ==
    IF inject THEN Reply(K, "EIO")
    ELSE IF \E x \in K : SameRoute(x, route) THEN Reply(K, "EEXIST")
    ELSE Reply(K \cup {route}, Nil)

RouteReplace(K, route, inject) ==
    IF inject THEN Reply(K, "EIO")
    ELSE Reply({x \in K : ~SameRoute(x, route)} \cup {route}, Nil)

RouteDel(K, route, inject) ==
    IF inject THEN Reply(K, "EIO")
    ELSE IF route \notin K THEN Reply(K, "ESRCH")
    ELSE Reply(K \ {route}, Nil)

RouteListFiltered(K, routeTableID) == {r \in K : r.Table = routeTableID}

NeighAppend(K, neigh, inject) ==
    IF inject THEN Reply(K, "EIO")
    ELSE Reply(K \cup {neigh}, Nil)

NeighDel(K, neigh, inject) ==
    IF inject THEN Reply(K, "EIO")
    ELSE IF neigh \notin K THEN Reply(K, "ENOENT")
    ELSE Reply(K \ {neigh}, Nil)

NeighList(K, linkIndex) == {n \in K : n.LinkIndex = linkIndex}

(***************************************************************************)
(* The listers.  Each gives the set of mappings the call may return: the   *)
(* listed objects indexed by key.  The list order is the transport's; when *)
(* two listed objects share a key the later one overwrites the earlier, so *)
(* any of them may be the one kept.                                        *)
(***************************************************************************)
Index(listed, key) ==
    LET keys == {key[x] : x \in listed}
    IN  {m \in [keys -> listed] : \A k \in keys : key[m[k]] = k}

ListRulesOnNode(K, routeTableID) ==
    Index(RuleListFiltered(K, routeTableID), [v \in Rule |-> RuleKey(v)])

ListRoutesOnNode(K, routeTableID) ==
    Index(RouteListFiltered(K, routeTableID), [v \in Route |-> RouteKey(v)])

NeighKey == [v \in Neigh |-> v.IP]

\* ListFDBsOnNode without the MAC filter.
ListFDBsOnNode_NoFilter(K, linkIndex) == Index(NeighList(K, linkIndex), NeighKey)

ListFDBsOnNode(K, linkIndex) ==
    Index({v \in NeighList(K, linkIndex) : v.HardwareAddr = AllZeroMAC}, NeighKey)

(***************************************************************************)
(* What the caller and the kernel may hold at the start.  A desired        *)
(* mapping holds each object under its key.  The kernel holds at most      *)
(* MaxPre objects, one route per destination and table.                    *)
(***************************************************************************)
KeyedMaps(objs, key) ==
    UNION {Index(T, key) : T \in SUBSET objs}

RuleMaps == KeyedMaps(Rule, [v \in Rule |-> RuleKey(v)])
RouteMaps == KeyedMaps(Route, [v \in Route |-> RouteKey(v)])
NeighMaps == KeyedMaps(Neigh, NeighKey)

BoundedSubsets(S, n) == {T \in SUBSET S : Cardinality(T) <= n}

RouteTables ==
    {T \in BoundedSubsets(Route, MaxPre) :
        \A x, y \in T : SameRoute(x, y) => x = y}

\* pre before any call: K the kernel, C the current mapping, D the desired
\* mapping and scope the table or link on entry, err the error of the call's
\* own listing.
NoCall == [K |-> {}, C |-> EmptyMap, D |-> EmptyMap, scope |-> 0, err |-> Nil]

\* The second caller before it does anything.  desired and current are its
\* mappings, scope the table it listed, pc and visited the position of its
\* call, failed whether an operation of the call failed, C the mapping it
\* entered the call with, and seen where the first caller stood at the listing.
\* K and ops are the kernel and the operations of a call that is run on a
\* kernel of its own (see SpecTwin).
NoOther ==
    [desired |-> EmptyMap, current |-> EmptyMap, scope |-> 0, pc |-> "idle",
     visited |-> {}, failed |-> FALSE, C |-> EmptyMap, seen |-> <<>>,
     K |-> {}, ops |-> {}]

Kernel == CASE class = "rule" -> rules
            [] class = "route" -> routes
            [] class = "fdb" -> neighs

Init ==
    /\ class \in {"rule", "route", "fdb"}
    /\ rules \in IF class = "rule" THEN BoundedSubsets(Rule, MaxPre) ELSE {{}}
    /\ routes \in IF class = "route" THEN RouteTables ELSE {{}}
    /\ neighs \in IF class = "fdb" THEN BoundedSubsets(Neigh, MaxPre) ELSE {{}}
    /\ desired \in CASE class = "rule" -> RuleMaps
                     [] class = "route" -> RouteMaps
                     [] class = "fdb" -> NeighMaps
    /\ current = EmptyMap
    /\ scope = 0
    /\ fn = "none"
    /\ pc = "idle"
    /\ visited = {}
    /\ errList = <<>>
    /\ ops = <<>>
    /\ ret = NoReturn
    /\ pre = NoCall
    /\ failures = 0
    /\ again = "no"
    /\ other = NoOther

Idle == pc \in {"idle", "done"}

Injections == IF failures < MaxFail THEN {FALSE, TRUE} ELSE {FALSE}
Count(inject) == IF inject THEN failures + 1 ELSE failures

Op(name, k, v, err) == [op |-> name, key |-> k, obj |-> v, err |-> err]

(***************************************************************************)
(* The caller lists current state (the State Lister) into its mapping.     *)
(***************************************************************************)
\* The mapping of the call in flight was the listing of its scope on entry.
Fresh ==
    CASE class = "rule" -> pre.C \in ListRulesOnNode(pre.K, pre.scope)
      [] class = "route" -> pre.C \in ListRoutesOnNode(pre.K, pre.scope)
      [] class = "fdb" -> pre.C \in ListFDBsOnNode(pre.K, pre.scope)

\* What a listing says about the call before it: "ok" when that call was an
\* Apply* that was given the listing of the same scope and returned nil,
\* "nil" when it was an Apply* that was given another mapping for the same
\* scope and returned nil, "called" when it was any other Apply* that returned,
\* "no" otherwise.
Relisted(t) ==
    IF pc = "done"
    THEN IF fn \notin {"ApplyRules", "ApplyRoutes", "ApplyFDBs"} THEN "no"
         ELSE IF ret = NilError /\ Fresh /\ t = pre.scope THEN "ok"
         ELSE IF ret = NilError /\ t = pre.scope THEN "nil"
         ELSE "called"
    ELSE IF again \in {"ok", "nil"} /\ t # scope THEN "called" ELSE again

CallerList ==
    /\ Idle
    /\ \/ /\ class = "rule"
          /\ \E t \in Tables : \E m \in ListRulesOnNode(rules, t) :
                current' = m /\ scope' = t /\ again' = Relisted(t)
       \/ /\ class = "route"
          /\ \E t \in Tables : \E m \in ListRoutesOnNode(routes, t) :
                current' = m /\ scope' = t /\ again' = Relisted(t)
       \/ /\ class = "fdb"
          /\ \E l \in Links : \E m \in ListFDBsOnNode(neighs, l) :
                current' = m /\ scope' = l /\ again' = Relisted(l)
    /\ pc' = "idle"
    /\ fn' = "none"
    /\ ret' = NoReturn
    /\ errList' = <<>>
    /\ ops' = <<>>
    /\ pre' = NoCall
    /\ UNCHANGED <<other, class, rules, routes, neighs, desired, visited, failures>>

(***************************************************************************)
(* Control of the two range loops of an Apply* call: the loop over desired *)
(* runs while a key of desired is unvisited, then the loop over what is    *)
(* left in current, then the call returns errList.AsError().               *)
(***************************************************************************)
AfterDesired(vis, cur) ==
    IF vis # DOMAIN desired THEN "desired"
    ELSE IF DOMAIN cur # {} THEN "remove"
    ELSE "done"

\* AfterRemove of a call whose remove loop comes before its desired loop.
AfterRemove_ThenDesired(vis, cur) ==
    IF vis # DOMAIN cur THEN "remove"
    ELSE IF DOMAIN desired # {} /\ Len(ops) < 4 THEN "desired"
    ELSE "done"

AfterRemove(vis, cur) == IF vis # DOMAIN cur THEN "remove" ELSE "done"

\* Entry of an Apply* call with the caller's current and desired mappings.
Enter(f) ==
    /\ Idle
    /\ scope # 0
    /\ fn' = f
    /\ pc' = AfterDesired({}, current)
    /\ visited' = {}
    /\ errList' = <<>>
    /\ ops' = <<>>
    /\ ret' = IF AfterDesired({}, current) = "done" THEN NilError ELSE NoReturn
    /\ pre' = [K |-> Kernel, C |-> current, D |-> desired, scope |-> scope, err |-> Nil]
    /\ again' = IF pc = "idle" THEN again ELSE "no"
    /\ UNCHANGED <<other, class, rules, routes, neighs, desired, current, scope, failures>>

\* Issue that returns at the first failed operation.
Issue_FailFast(r, name, k, v, inject, to, loop) ==
    LET stop == IF r.err # Nil THEN "done" ELSE to IN
    /\ errList' = ErrAppend(errList, r.err)
    /\ ops' = Append(ops, Op(name, k, v, r.err))
    /\ failures' = Count(inject)
    /\ pc' = stop
    /\ visited' = IF stop = loop THEN visited \cup {k} ELSE {}
    /\ ret' = IF stop = "done" THEN AsError(ErrAppend(errList, r.err)) ELSE NoReturn

\* One iteration that issues a transport operation and records its error.
Issue(r, name, k, v, inject, to, loop) ==
    /\ errList' = ErrAppend(errList, r.err)
    /\ ops' = Append(ops, Op(name, k, v, r.err))
    /\ failures' = Count(inject)
    /\ pc' = to
    /\ visited' = IF to = loop THEN visited \cup {k} ELSE {}
    /\ ret' = IF to = "done" THEN AsError(ErrAppend(errList, r.err)) ELSE NoReturn

\* Matched that issues the desired object again for a key found in current.
Matched_Reissue(k, to) ==
    /\ pc' = to
    /\ visited' = IF to = "desired" THEN visited \cup {k} ELSE {}
    /\ ret' = IF to = "done" THEN AsError(errList) ELSE NoReturn
    /\ ops' = Append(ops, Op("Reissue", k, desired[k], Nil))
    /\ UNCHANGED <<errList, failures>>

\* One iteration of the desired loop that issues nothing: delete(current, k).
Matched(k, to) ==
    /\ pc' = to
    /\ visited' = IF to = "desired" THEN visited \cup {k} ELSE {}
    /\ ret' = IF to = "done" THEN AsError(errList) ELSE NoReturn
    /\ UNCHANGED <<errList, ops, failures>>

(***************************************************************************)
(* ApplyRules.                                                             *)
(***************************************************************************)
ApplyRules == class = "rule" /\ Enter("ApplyRules")

ApplyRulesDesired ==
    /\ fn = "ApplyRules"
    /\ pc = "desired"
    /\ \E k \in DOMAIN desired \ visited :
        LET v == desired[k] IN
        IF k \notin DOMAIN current
        THEN \E inject \in Injections :
                LET r == RuleAdd(rules, v, inject) IN
                /\ rules' = r.k
                /\ Issue(r, "RuleAdd", k, v, inject,
                         AfterDesired(visited \cup {k}, current), "desired")
                /\ UNCHANGED current
        ELSE /\ current' = MapDelete(current, k)
             /\ Matched(k, AfterDesired(visited \cup {k}, MapDelete(current, k)))
             /\ UNCHANGED rules
    /\ UNCHANGED <<other, class, routes, neighs, desired, scope, fn, pre, again>>

ApplyRulesRemove ==
    /\ fn = "ApplyRules"
    /\ pc = "remove"
    /\ \E k \in DOMAIN current \ visited : \E inject \in Injections :
        LET v == current[k]
            r == RuleDel(rules, v, inject)
        IN  /\ rules' = r.k
            /\ Issue(r, "RuleDel", k, v, inject,
                     AfterRemove(visited \cup {k}, current), "remove")
    /\ UNCHANGED <<other, class, routes, neighs, desired, current, scope, fn, pre, again>>

(***************************************************************************)
(* ApplyRoutes.  A key found in current is first deleted from the mapping, *)
(* then the two routes are compared; the comparison dereferences both Dst  *)
(* pointers, and a nil one ends the call in a panic.                       *)
(***************************************************************************)
ApplyRoutes == class = "route" /\ Enter("ApplyRoutes")

ApplyRoutesDesired ==
    /\ fn = "ApplyRoutes"
    /\ pc = "desired"
    /\ \E k \in DOMAIN desired \ visited :
        LET v == desired[k]
            cur == MapDelete(current, k)
        IN
        IF k \notin DOMAIN current
        THEN \E inject \in Injections :
                LET r == RouteAdd(routes, v, inject) IN
                /\ routes' = r.k
                /\ Issue(r, "RouteAdd", k, v, inject,
                         AfterDesired(visited \cup {k}, current), "desired")
                /\ UNCHANGED current
        ELSE IF routeEqualPanics(current[k], v)
        THEN /\ current' = cur
             /\ pc' = "panic"
             /\ visited' = {}
             /\ UNCHANGED <<routes, errList, ops, failures, ret>>
        ELSE IF ~routeEqual(current[k], v)
        THEN \E inject \in Injections :
                LET r == RouteReplace(routes, v, inject) IN
                /\ current' = cur
                /\ routes' = r.k
                /\ Issue(r, "RouteReplace", k, v, inject,
                         AfterDesired(visited \cup {k}, cur), "desired")
        ELSE /\ current' = cur
             /\ Matched(k, AfterDesired(visited \cup {k}, cur))
             /\ UNCHANGED routes
    /\ UNCHANGED <<other, class, rules, neighs, desired, scope, fn, pre, again>>

ApplyRoutesRemove ==
    /\ fn = "ApplyRoutes"
    /\ pc = "remove"
    /\ \E k \in DOMAIN current \ visited : \E inject \in Injections :
        LET v == current[k]
            r == RouteDel(routes, v, inject)
        IN  /\ routes' = r.k
            /\ Issue(r, "RouteDel", k, v, inject,
                     AfterRemove(visited \cup {k}, current), "remove")
    /\ UNCHANGED <<other, class, rules, neighs, desired, current, scope, fn, pre, again>>

(***************************************************************************)
(* ApplyFDBs.                                                              *)
(***************************************************************************)
ApplyFDBs == class = "fdb" /\ Enter("ApplyFDBs")

ApplyFDBsDesired ==
    /\ fn = "ApplyFDBs"
    /\ pc = "desired"
    /\ \E k \in DOMAIN desired \ visited :
        LET v == desired[k] IN
        IF k \notin DOMAIN current
        THEN \E inject \in Injections :
                LET r == NeighAppend(neighs, v, inject) IN
                /\ neighs' = r.k
                /\ Issue(r, "NeighAppend", k, v, inject,
                         AfterDesired(visited \cup {k}, current), "desired")
                /\ UNCHANGED current
        ELSE /\ current' = MapDelete(current, k)
             /\ Matched(k, AfterDesired(visited \cup {k}, MapDelete(current, k)))
             /\ UNCHANGED neighs
    /\ UNCHANGED <<other, class, rules, routes, desired, scope, fn, pre, again>>

ApplyFDBsRemove ==
    /\ fn = "ApplyFDBs"
    /\ pc = "remove"
    /\ \E k \in DOMAIN current \ visited : \E inject \in Injections :
        LET v == current[k]
            r == NeighDel(neighs, v, inject)
        IN  /\ neighs' = r.k
            /\ Issue(r, "NeighDel", k, v, inject,
                     AfterRemove(visited \cup {k}, current), "remove")
    /\ UNCHANGED <<other, class, rules, routes, desired, current, scope, fn, pre, again>>

(***************************************************************************)
(* CleanRoutesOnNode and CleanRulesOnNode.  The call lists the table into  *)
(* a mapping of its own (kept in pre.C; a failed listing leaves it nil,    *)
(* which ranges as the empty mapping), then deletes every listed object.   *)
(***************************************************************************)
\* EnterClean that drops the error of the listing.
EnterClean_DropListErr(f, t, m, listErr) ==
    /\ Idle
    /\ fn' = f
    /\ pc' = AfterRemove({}, m)
    /\ visited' = {}
    /\ errList' = <<>>
    /\ ops' = <<>>
    /\ ret' = IF AfterRemove({}, m) = "done" THEN AsError(<<>>) ELSE NoReturn
    /\ pre' = [K |-> Kernel, C |-> m, D |-> EmptyMap, scope |-> t, err |-> listErr]
    /\ again' = "no"

EnterClean(f, t, m, listErr) ==
    /\ Idle
    /\ fn' = f
    /\ pc' = AfterRemove({}, m)
    /\ visited' = {}
    /\ errList' = ErrAppend(<<>>, listErr)
    /\ ops' = <<>>
    /\ ret' = IF AfterRemove({}, m) = "done"
              THEN AsError(ErrAppend(<<>>, listErr)) ELSE NoReturn
    /\ pre' = [K |-> Kernel, C |-> m, D |-> EmptyMap, scope |-> t, err |-> listErr]
    /\ again' = "no"

CleanRoutesOnNode ==
    /\ class = "route"
    /\ \E routeTableID \in Tables : \E inject \in Injections :
        /\ IF inject
           THEN EnterClean("CleanRoutesOnNode", routeTableID, EmptyMap,
                           Errorf("error listing routes", "EIO"))
           ELSE \E m \in ListRoutesOnNode(routes, routeTableID) :
                    EnterClean("CleanRoutesOnNode", routeTableID, m, Nil)
        /\ failures' = Count(inject)
    /\ UNCHANGED <<other, class, rules, routes, neighs, desired, current, scope>>

\* Wrapped that swallows the error of the delete.
Wrapped_Swallow(r, what) == [k |-> r.k, err |-> Nil]

\* if err != nil { errList = errList.Append(fmt.Errorf(...)) }
Wrapped(r, what) ==
    [k |-> r.k, err |-> IF r.err # Nil THEN Errorf(what, r.err) ELSE Nil]

CleanRoutesRemove ==
    /\ fn = "CleanRoutesOnNode"
    /\ pc = "remove"
    /\ \E k \in DOMAIN pre.C \ visited : \E inject \in Injections :
        LET v == pre.C[k]
            r == Wrapped(RouteDel(routes, v, inject), "error deleting routes")
        IN  /\ routes' = r.k
            /\ Issue(r, "RouteDel", k, v, inject,
                     AfterRemove(visited \cup {k}, pre.C), "remove")
    /\ UNCHANGED <<other, class, rules, neighs, desired, current, scope, fn, pre, again>>

CleanRulesOnNode ==
    /\ class = "rule"
    /\ \E routeTableID \in Tables : \E inject \in Injections :
        /\ IF inject
           THEN EnterClean("CleanRulesOnNode", routeTableID, EmptyMap,
                           Errorf("error listing rules", "EIO"))
           ELSE \E m \in ListRulesOnNode(rules, routeTableID) :
                    EnterClean("CleanRulesOnNode", routeTableID, m, Nil)
        /\ failures' = Count(inject)
    /\ UNCHANGED <<other, class, rules, routes, neighs, desired, current, scope>>

CleanRulesRemove ==
    /\ fn = "CleanRulesOnNode"
    /\ pc = "remove"
    /\ \E k \in DOMAIN pre.C \ visited : \E inject \in Injections :
        LET v == pre.C[k]
            r == Wrapped(RuleDel(rules, v, inject), "error deleting rules")
        IN  /\ rules' = r.k
            /\ Issue(r, "RuleDel", k, v, inject,
                     AfterRemove(visited \cup {k}, pre.C), "remove")
    /\ UNCHANGED <<other, class, routes, neighs, desired, current, scope, fn, pre, again>>

Next ==
    \/ CallerList
    \/ ApplyRules
    \/ ApplyRulesDesired
    \/ ApplyRulesRemove
    \/ ApplyRoutes
    \/ ApplyRoutesDesired
    \/ ApplyRoutesRemove
    \/ ApplyFDBs
    \/ ApplyFDBsDesired
    \/ ApplyFDBsRemove
    \/ CleanRoutesOnNode
    \/ CleanRoutesRemove
    \/ CleanRulesOnNode
    \/ CleanRulesRemove

Spec == Init /\ [][Next]_vars

(***************************************************************************)
(* Two callers.  The package holds no lock: a second caller (a goroutine   *)
(* of the same program) may list and converge the same table while a call  *)
(* of the first is in flight.  Its call is the same code, run on its own   *)
(* mappings; the kernel is shared.  No transport request fails here, so    *)
(* every error is the kernel's answer.  Both callers converge the table    *)
(* RaceTable, of which all objects are, with a listing taken for the call. *)
(***************************************************************************)
RaceTable == 100
RaceMaps ==
    {m \in IF class = "rule" THEN RuleMaps ELSE RouteMaps :
        \A k \in DOMAIN m : m[k].Table = RaceTable}

InitRace ==
    /\ class \in {"rule", "route"}
    /\ rules \in IF class = "rule"
                THEN {T \in BoundedSubsets(Rule, MaxPre) :
                        T = RuleListFiltered(T, RaceTable)}
                ELSE {{}}
    /\ routes \in IF class = "route"
                 THEN {T \in RouteTables : T = RouteListFiltered(T, RaceTable)}
                 ELSE {{}}
    /\ neighs = {}
    /\ desired \in RaceMaps
    /\ current = EmptyMap
    /\ scope = 0
    /\ fn = "none"
    /\ pc = "idle"
    /\ visited = {}
    /\ errList = <<>>
    /\ ops = <<>>
    /\ ret = NoReturn
    /\ pre = NoCall
    /\ failures = MaxFail
    /\ again = "no"
    /\ \E d \in RaceMaps : other = [NoOther EXCEPT !.desired = d]

\* Where the first caller stands.
Stand == <<pc, visited, ops, current>>

\* After the desired loop of the second caller's call.
OtherAfterDesired(vis, cur) ==
    IF vis # DOMAIN other.desired THEN "desired"
    ELSE IF DOMAIN cur # {} THEN "remove"
    ELSE "done"

\* The second caller lists the table the first caller works on and enters
\* ApplyRules or ApplyRoutes with the listing.  It makes one call.
OtherList ==
    /\ other.pc = "idle"
    /\ scope # 0
    /\ \E m \in IF class = "rule" THEN ListRulesOnNode(rules, scope)
                 ELSE ListRoutesOnNode(routes, scope) :
        other' = [other EXCEPT !.current = m, !.C = m, !.scope = scope,
                               !.pc = OtherAfterDesired({}, m), !.visited = {},
                               !.failed = FALSE, !.seen = Stand]
    /\ UNCHANGED <<class, rules, routes, neighs, desired, current, scope, fn, pc,
                   visited, errList, ops, ret, pre, failures, again>>

\* One iteration of the loop over desired of the second caller's call.
OtherDesired ==
    /\ other.pc = "desired"
    /\ \E k \in DOMAIN other.desired \ other.visited :
        LET v == other.desired[k]
            vis == other.visited \cup {k}
            cur == MapDelete(other.current, k)
            to(c) == OtherAfterDesired(vis, c)
            step(c, r) ==
                [other EXCEPT !.current = c, !.pc = to(c),
                              !.visited = IF to(c) = "desired" THEN vis ELSE {},
                              !.failed = other.failed \/ r.err # Nil]
        IN
        IF k \notin DOMAIN other.current
        THEN LET r == IF class = "rule" THEN RuleAdd(rules, v, FALSE)
                      ELSE RouteAdd(routes, v, FALSE)
             IN  /\ rules' = IF class = "rule" THEN r.k ELSE rules
                 /\ routes' = IF class = "route" THEN r.k ELSE routes
                 /\ other' = step(other.current, r)
        ELSE IF class = "rule"
        THEN /\ other' = step(cur, Reply(rules, Nil))
             /\ UNCHANGED <<rules, routes>>
        ELSE IF routeEqualPanics(other.current[k], v)
        THEN /\ other' = [other EXCEPT !.current = cur, !.pc = "panic", !.visited = {}]
             /\ UNCHANGED <<rules, routes>>
        ELSE IF ~routeEqual(other.current[k], v)
        THEN LET r == RouteReplace(routes, v, FALSE)
             IN  /\ routes' = r.k
                 /\ other' = step(cur, r)
                 /\ UNCHANGED rules
        ELSE /\ other' = step(cur, Reply(routes, Nil))
             /\ UNCHANGED <<rules, routes>>
    /\ UNCHANGED <<class, neighs, desired, current, scope, fn, pc,
                   visited, errList, ops, ret, pre, failures, again>>

\* One iteration of the loop over what is left in current.
OtherRemove ==
    /\ other.pc = "remove"
    /\ \E k \in DOMAIN other.current \ other.visited :
        LET v == other.current[k]
            vis == other.visited \cup {k}
            r == IF class = "rule" THEN RuleDel(rules, v, FALSE)
                 ELSE RouteDel(routes, v, FALSE)
            to == IF vis # DOMAIN other.current THEN "remove" ELSE "done"
        IN  /\ rules' = IF class = "rule" THEN r.k ELSE rules
            /\ routes' = IF class = "route" THEN r.k ELSE routes
            /\ other' = [other EXCEPT !.pc = to,
                                      !.visited = IF to = "remove" THEN vis ELSE {},
                                      !.failed = other.failed \/ r.err # Nil]
    /\ UNCHANGED <<class, neighs, desired, current, scope, fn, pc,
                   visited, errList, ops, ret, pre, failures, again>>

\* The first caller lists RaceTable once and makes one call with the listing.
RaceList == CallerList /\ scope = 0 /\ scope' = RaceTable
RaceApplyRules == ApplyRules /\ pc = "idle"
RaceApplyRoutes == ApplyRoutes /\ pc = "idle"

NextRace ==
    \/ RaceList
    \/ RaceApplyRules
    \/ ApplyRulesDesired
    \/ ApplyRulesRemove
    \/ RaceApplyRoutes
    \/ ApplyRoutesDesired
    \/ ApplyRoutesRemove
    \/ OtherList
    \/ OtherDesired
    \/ OtherRemove

SpecRace == InitRace /\ [][NextRace]_vars

(***************************************************************************)
(* Teardown against converge.  After a Clean*OnNode call whose listing     *)
(* succeeded, the twin call ApplyRoutes(listing, {}) (ApplyRules for       *)
(* rules) is run from the kernel the teardown started from, on a kernel of *)
(* its own, with the same transport failures: the delete of an object      *)
(* fails in the twin when the request failed in the teardown.  With an     *)
(* empty desired mapping the loop over desired has no iteration.           *)
(***************************************************************************)
\* The transport request for the object failed in the teardown call.
RequestFailed(v) ==
    \E i \in 1..Len(ops) :
        /\ ops[i].obj = v
        /\ ops[i].err \in {Errorf("error deleting routes", "EIO"),
                           Errorf("error deleting rules", "EIO")}

TwinEnter ==
    /\ fn \in {"CleanRoutesOnNode", "CleanRulesOnNode"}
    /\ pc = "done"
    /\ pre.err = Nil
    /\ other = NoOther
    /\ other' = [NoOther EXCEPT !.current = pre.C, !.C = pre.C, !.scope = pre.scope,
                                !.K = pre.K,
                                !.pc = IF DOMAIN pre.C # {} THEN "remove" ELSE "done"]
    /\ UNCHANGED <<class, rules, routes, neighs, desired, current, scope, fn, pc,
                   visited, errList, ops, ret, pre, failures, again>>

TwinRemove ==
    /\ other.pc = "remove"
    /\ \E k \in DOMAIN other.current \ other.visited :
        LET v == other.current[k]
            vis == other.visited \cup {k}
            r == IF class = "rule" THEN RuleDel(other.K, v, RequestFailed(v))
                 ELSE RouteDel(other.K, v, RequestFailed(v))
            to == IF vis # DOMAIN other.current THEN "remove" ELSE "done"
        IN  other' = [other EXCEPT !.K = r.k, !.pc = to,
                                   !.visited = IF to = "remove" THEN vis ELSE {},
                                   !.ops = other.ops \cup
                                        {<<IF class = "rule" THEN "RuleDel" ELSE "RouteDel", k, v>>},
                                   !.failed = other.failed \/ r.err # Nil]
    /\ UNCHANGED <<class, rules, routes, neighs, desired, current, scope, fn, pc,
                   visited, errList, ops, ret, pre, failures, again>>

\* A teardown call starts while no twin has run.
TwinCleanRoutes == CleanRoutesOnNode /\ other = NoOther
TwinCleanRules == CleanRulesOnNode /\ other = NoOther

NextTwin ==
    \/ TwinCleanRoutes
    \/ CleanRoutesRemove
    \/ TwinCleanRules
    \/ CleanRulesRemove
    \/ TwinEnter
    \/ TwinRemove

SpecTwin == Init /\ [][NextTwin]_vars

(***************************************************************************)
(* Properties.                                                             *)
(***************************************************************************)
Applies == {"ApplyRules", "ApplyRoutes", "ApplyFDBs"}
Returned(f) == fn = f /\ pc = "done"
ReturnedNil(f) == Returned(f) /\ ret = NilError
C == pre.C
D == desired
OpsOn(k) == {i \in 1..Len(ops) : ops[i].key = k}
OpsNamed(names) == {i \in 1..Len(ops) : ops[i].op \in names}
KeysOf(names) == {ops[i].key : i \in OpsNamed(names)}
Failed == {i \in 1..Len(ops) : ops[i].err # Nil}

RuleKeysOfTable == {RuleKey(r) : r \in RuleListFiltered(rules, pre.scope)}
OneRulePerKey(K, t) ==
    \A x, y \in RuleListFiltered(K, t) : RuleKey(x) = RuleKey(y) => x = y

InTable(m, t) == \A k \in DOMAIN m : m[k].Table = t

\* C1: after ApplyRules(C, D) returned nil, with C the listing of the table
\* taken just before the call and D a desired mapping for that table, the rule
\* keys of that table in the kernel are exactly the keys of D.
C1_Completeness ==
    (ReturnedNil("ApplyRules") /\ Fresh /\ InTable(D, pre.scope))
        => RuleKeysOfTable = DOMAIN D

RouteHeld(k) == {r \in routes : RouteKey(r) = k}
Agree(x, y) ==
    /\ x.Dst.IP = y.Dst.IP /\ x.Dst.Mask = y.Dst.Mask
    /\ x.Gw = y.Gw /\ x.LinkIndex = y.LinkIndex

\* C2: after ApplyRoutes(C, D) returned nil, with C the listing of the table
\* taken just before the call, the kernel holds for every key of D a route of
\* that key that agrees with the desired route in destination IP, destination
\* mask, gateway IP and link index, and holds no route for a key of C that is
\* not in D.
C2_RoutesPostCondition ==
    (ReturnedNil("ApplyRoutes") /\ Fresh) =>
        /\ \A k \in DOMAIN D : \E r \in RouteHeld(k) : Agree(r, D[k])
        /\ \A k \in DOMAIN C \ DOMAIN D : RouteHeld(k) = {}

C2_Witness ==
    /\ ReturnedNil("ApplyRoutes") /\ Fresh
    /\ OpsNamed({"RouteReplace"}) # {} /\ OpsNamed({"RouteDel"}) # {}

\* C3 as stated: an ApplyRoutes call whose current mapping was listed after an
\* earlier ApplyRoutes call with the same desired mapping issues no transport
\* operation.
C3_Idempotence ==
    (fn = "ApplyRoutes" /\ again # "no") => ops = <<>>

\* C3 amended: when ApplyRoutes(C, D) returned nil, with C the listing of the
\* table taken just before the call and every route of D in that table, a
\* second call ApplyRoutes(C', D), with C' the listing of the same table taken
\* after the first call, issues no transport operation.
C3_IdempotenceAmended ==
    (fn = "ApplyRoutes" /\ again = "ok" /\ \A k \in DOMAIN D : D[k].Table = pre.scope)
        => ops = <<>>

C3_Witness ==
    /\ Returned("ApplyRoutes") /\ again = "ok"
    /\ \A k \in DOMAIN D : D[k].Table = pre.scope
    /\ Cardinality(DOMAIN D) = 1 /\ DOMAIN C = DOMAIN D

\* C4: for a key present in both C and D whose routes agree on destination IP,
\* gateway IP, destination mask and link index, ApplyRoutes issues no replace,
\* no add and no delete, even when the routes differ in source IP.
C4_MinimalReplace ==
    fn = "ApplyRoutes" =>
        \A k \in DOMAIN C \cap DOMAIN D : Agree(C[k], D[k]) => OpsOn(k) = {}

C4_Witness ==
    /\ Returned("ApplyRoutes")
    /\ \E k \in DOMAIN C \cap DOMAIN D : Agree(C[k], D[k]) /\ C[k].Src # D[k].Src

Ended == pc \in {"done", "panic"}
WillPanic == \E k \in DOMAIN C \cap DOMAIN D : routeEqualPanics(C[k], D[k])
AddOps == {"RuleAdd", "RouteAdd", "NeighAppend"}
DelOps == {"RuleDel", "RouteDel", "NeighDel"}

\* C5: for a key present in both C and D whose routes differ in gateway IP or
\* link index, ApplyRoutes issues exactly one replace, with the desired route,
\* and no add and no delete; given the listing taken just before the call,
\* the kernel holds a route of that key at every point of the call.
C5_ReplaceWithoutFlapping ==
    fn = "ApplyRoutes" =>
        \A k \in DOMAIN C \cap DOMAIN D :
            (C[k].Gw # D[k].Gw \/ C[k].LinkIndex # D[k].LinkIndex) =>
                /\ \A i \in OpsOn(k) : ops[i].op = "RouteReplace" /\ ops[i].obj = D[k]
                /\ Cardinality(OpsOn(k)) <= 1
                /\ Ended => Cardinality(OpsOn(k)) = 1
                /\ Fresh => RouteHeld(k) # {}

\* C6: in ApplyRules, ApplyRoutes and ApplyFDBs, an object whose key is in C
\* but not in D receives exactly one delete during the call and never an add
\* or a replace; an object whose key is in D never receives a delete.
C6_DeletionOnlyExtras ==
    fn \in Applies =>
        /\ \A k \in DOMAIN C \ DOMAIN D :
            /\ \A i \in OpsOn(k) : ops[i].op \in DelOps /\ ops[i].obj = C[k]
            /\ Cardinality(OpsOn(k)) <= 1
            /\ Ended => Cardinality(OpsOn(k)) = 1
        /\ \A k \in DOMAIN D : \A i \in OpsOn(k) : ops[i].op \notin DelOps

\* C7: when ApplyRules returns, whichever operations failed, an add was
\* attempted for every key of D absent from C and a delete for every key of C
\* absent from D, each once.
C7_ContinueOnError ==
    Returned("ApplyRules") =>
        /\ KeysOf({"RuleAdd"}) = DOMAIN D \ DOMAIN C
        /\ KeysOf({"RuleDel"}) = DOMAIN C \ DOMAIN D
        /\ \A k \in DOMAIN C \cup DOMAIN D : Cardinality(OpsOn(k)) <= 1

C7_Witness ==
    /\ Returned("ApplyRules")
    /\ Len(ops) = 2 /\ ops[1].err # Nil /\ ops[2].err # Nil
    /\ ops[1].op = "RuleAdd" /\ ops[2].op = "RuleDel"

\* C8: ApplyRules, ApplyRoutes and ApplyFDBs end by returning; the error is
\* nil exactly when every transport operation of the call succeeded, and
\* otherwise holds one component per failed operation.
C8_AggregateError ==
    (fn \in Applies /\ Ended) =>
        /\ pc = "done"
        /\ ret = NilError <=> Failed = {}
        /\ Len(ret.list) = Cardinality(Failed)
        /\ \A i \in Failed : \E j \in 1..Len(ret.list) : ret.list[j] = ops[i].err

\* C9 (its steady state): when a cycle with the listing of the table, for a
\* desired mapping of that table, has returned nil and the next listing has
\* exactly the keys of D, the next cycle issues no operation and returns nil.
C9_Convergence ==
    (/\ fn \in {"ApplyRules", "ApplyRoutes"}
     /\ again = "ok"
     /\ InTable(D, pre.scope)
     /\ DOMAIN C = DOMAIN D) =>
        /\ ops = <<>>
        /\ Ended => ReturnedNil(fn)

ListingFailed == Len(errList) > 0 /\ errList[1] \in
    {Errorf("error listing routes", "EIO"), Errorf("error listing rules", "EIO")}

\* C10: CleanRoutesOnNode(t) issues a delete for every route the kernel holds
\* in table t, and CleanRulesOnNode(t) for every rule of table t; after a call
\* that returned nil the kernel holds no route, respectively no rule, of t.
C10_TeardownRemovesEverything ==
    /\ (Returned("CleanRoutesOnNode") /\ ~ListingFailed) =>
            \A r \in RouteListFiltered(pre.K, pre.scope) :
                \E i \in OpsNamed({"RouteDel"}) : ops[i].obj = r
    /\ ReturnedNil("CleanRoutesOnNode") => RouteListFiltered(routes, pre.scope) = {}
    /\ (Returned("CleanRulesOnNode") /\ ~ListingFailed) =>
            \A r \in RuleListFiltered(pre.K, pre.scope) :
                \E i \in OpsNamed({"RuleDel"}) : ops[i].obj = r
    /\ ReturnedNil("CleanRulesOnNode") => RuleListFiltered(rules, pre.scope) = {}

Cleans == {"CleanRoutesOnNode", "CleanRulesOnNode"}
ListedOnEntry ==
    IF class = "rule" THEN RuleListFiltered(pre.K, pre.scope)
    ELSE RouteListFiltered(pre.K, pre.scope)

\* C11: when the listing of a CleanRoutesOnNode or CleanRulesOnNode call
\* fails, the call ranges over the empty mapping, issues no delete, leaves the
\* kernel as it was and returns a non-nil error holding the listing failure;
\* when the listing succeeds, a delete is issued for every listed key whichever
\* deletes fail, and every failed delete is a component of the returned error.
C11_TeardownOnListingFailure ==
    (fn \in Cleans /\ pc = "done") =>
        IF pre.err # Nil
        THEN /\ C = EmptyMap
             /\ ops = <<>>
             /\ Kernel = pre.K
             /\ ret = [nil |-> FALSE, list |-> <<pre.err>>]
        ELSE /\ KeysOf(DelOps) = DOMAIN C
             /\ Len(ops) = Cardinality(DOMAIN C)
             /\ Len(ret.list) = Cardinality(Failed)
             /\ \A i \in Failed : \E j \in 1..Len(ret.list) : ret.list[j] = ops[i].err

C11_Witness ==
    /\ fn \in Cleans /\ pc = "done"
    /\ pre.err # Nil
    /\ ListedOnEntry # {}

C11_WitnessDeletes ==
    /\ fn \in Cleans /\ pc = "done"
    /\ Len(ops) = 2 /\ ops[1].err # Nil /\ ops[2].err = Nil

\* The caller's mapping is the result of a ListFDBsOnNode call just made.
ListedFDBs == class = "fdb" /\ pc = "idle" /\ scope # 0

\* C12: the result of ListFDBsOnNode holds, under an IP, only an entry of the
\* link that the transport listed with that IP and the all-zero MAC; an entry
\* with another MAC is never in the result.
C12_FDBFiltering ==
    ListedFDBs =>
        \A k \in DOMAIN current :
            /\ current[k] \in NeighList(neighs, scope)
            /\ current[k].IP = k
            /\ current[k].HardwareAddr = AllZeroMAC

C12_Witness ==
    /\ ListedFDBs
    /\ \E x, y \in NeighList(neighs, scope) :
            /\ x.IP = y.IP
            /\ x.HardwareAddr = AllZeroMAC /\ y.HardwareAddr # AllZeroMAC
            /\ x.IP \in DOMAIN current

\* C13: for an IP key present in both C and D, ApplyFDBs issues no transport
\* operation for the key and the kernel's entries for that IP stay as they
\* were on entry, even when the desired entry has another MAC or link index.
C13_FDBNeverReplaced ==
    fn = "ApplyFDBs" =>
        \A k \in DOMAIN C \cap DOMAIN D :
            /\ OpsOn(k) = {}
            /\ {n \in neighs : n.IP = k} = {n \in pre.K : n.IP = k}

C13_Witness ==
    /\ Returned("ApplyFDBs")
    /\ ops # <<>>
    /\ \E k \in DOMAIN C \cap DOMAIN D :
            /\ C[k].HardwareAddr # D[k].HardwareAddr
            /\ C[k] \in neighs

\* C14: for a key present in both C and D, ApplyRules issues no transport
\* operation for the key and the kernel's rules of that key stay as they were
\* on entry, even when the current and the desired rule differ in priority or
\* table id.
C14_RulesNeverReplaced ==
    fn = "ApplyRules" =>
        \A k \in DOMAIN C \cap DOMAIN D :
            /\ OpsOn(k) = {}
            /\ {r \in rules : RuleKey(r) = k} = {r \in pre.K : RuleKey(r) = k}

C14_Witness ==
    /\ Returned("ApplyRules")
    /\ ops # <<>>
    /\ \E k \in DOMAIN C \cap DOMAIN D :
            /\ C[k].Priority # D[k].Priority
            /\ C[k].Table # D[k].Table
            /\ C[k] \in rules

\* The kernel's table RaceTable matches the desired mapping d.
Matches(d) ==
    IF class = "rule"
    THEN {RuleKey(r) : r \in RuleListFiltered(rules, RaceTable)} = DOMAIN d
    ELSE /\ {RouteKey(r) : r \in RouteListFiltered(routes, RaceTable)} = DOMAIN d
         /\ \A k \in DOMAIN d : \E r \in RouteHeld(k) : Agree(r, d[k])

\* The second caller listed and ran its call after the call of the first
\* caller had returned.
OneAfterTheOther == other.pc = "done" /\ pc = "done" /\ other.seen[1] = "done"

\* The second caller listed between the listing and the call of the first.
Interleaved == other.pc = "done" /\ pc = "done" /\ other.seen[1] = "idle"

\* C15, the calls one after the other: when a call of one caller has
\* returned, the other caller then lists the table and runs its call, and no
\* operation of either call failed, the table matches the desired mapping of
\* the later call.
C15_OneAfterTheOther ==
    (OneAfterTheOther /\ Failed = {} /\ ~other.failed) => Matches(other.desired)

\* C15, the calls interleaved: both calls have returned without a failed
\* operation and the table matches neither desired mapping.
C15_RaceOutcome ==
    /\ Interleaved /\ Failed = {} /\ ~other.failed
    /\ class = "rule" => OneRulePerKey(pre.K, RaceTable)
    /\ ~Matches(desired) /\ ~Matches(other.desired)

\* C16: in ApplyRules, ApplyRoutes and ApplyFDBs no add and no replace is
\* issued after a delete of the same call: every add and replace comes before
\* the first delete.
C16_OperationOrdering ==
    fn \in Applies =>
        \A i, j \in 1..Len(ops) :
            (i < j /\ ops[i].op \in DelOps) => ops[j].op \in DelOps

C16_Witness ==
    /\ Returned("ApplyRoutes")
    /\ OpsNamed({"RouteAdd"}) # {}
    /\ OpsNamed({"RouteReplace"}) # {}
    /\ OpsNamed({"RouteDel"}) # {}

\* C17: when its listing succeeded, CleanRoutesOnNode(t) has issued the same
\* transport operations (one delete per listed key, nothing else), left the
\* kernel in the same state and returned nil in the same cases as
\* ApplyRoutes(listing, {}) run from the same kernel under the same transport
\* failures; likewise CleanRulesOnNode(t) and ApplyRules.
C17_TeardownIsConvergeToEmpty ==
    (fn \in Cleans /\ pc = "done" /\ other.pc = "done" /\ other.C = C) =>
        /\ {<<ops[i].op, ops[i].key, ops[i].obj>> : i \in 1..Len(ops)} = other.ops
        /\ Len(ops) = Cardinality(DOMAIN C)
        /\ \A i \in 1..Len(ops) : ops[i].op \in DelOps
        /\ Kernel = other.K
        /\ (ret = NilError) <=> ~other.failed

C17_Witness ==
    /\ fn \in Cleans /\ pc = "done" /\ other.pc = "done" /\ other.C = C
    /\ Len(ops) = 2 /\ Cardinality(Failed) = 1
    /\ other.failed

\* C18: ApplyRules, ApplyRoutes and ApplyFDBs leave the desired mapping as it
\* was; during the call the caller's current mapping loses only keys of the
\* desired mapping, and on return it holds exactly the entries of C whose key
\* is not in D, whether or not an operation failed.
C18_CallerMappings ==
    fn \in Applies =>
        /\ desired = pre.D
        /\ \A k \in DOMAIN current : k \in DOMAIN C /\ current[k] = C[k]
        /\ DOMAIN C \ DOMAIN D \subseteq DOMAIN current
        /\ pc = "done" => DOMAIN current = DOMAIN C \ DOMAIN D

C18_Witness ==
    /\ fn \in Applies /\ pc = "done"
    /\ Failed # {}
    /\ DOMAIN C \cap DOMAIN D # {}
    /\ DOMAIN current # {}

ZeroMACs(m) == \A k \in DOMAIN m : m[k].HardwareAddr = AllZeroMAC

\* C19 as stated: when every entry of D has the all-zero MAC and an ApplyFDBs
\* call for a link returned nil, the listing of the link taken next has
\* exactly the keys of D, and an ApplyFDBs call with that listing issues no
\* operation.
C19_FDBIdempotence ==
    (class = "fdb" /\ again \in {"nil", "ok"} /\ ZeroMACs(D)) =>
        /\ pc = "idle" => DOMAIN current = DOMAIN D
        /\ fn = "ApplyFDBs" => ops = <<>>

\* C19 amended: when every entry of D has the all-zero MAC and is an entry of
\* link l, and ApplyFDBs(C, D) returned nil with C the listing of l taken just
\* before the call, the next listing of l has exactly the keys of D and an
\* ApplyFDBs call with that listing and D issues no operation.
C19_FDBIdempotenceAmended ==
    (/\ class = "fdb" /\ again = "ok"
     /\ ZeroMACs(D) /\ \A k \in DOMAIN D : D[k].LinkIndex = scope) =>
        /\ pc = "idle" => DOMAIN current = DOMAIN D
        /\ fn = "ApplyFDBs" => ops = <<>> /\ DOMAIN C = DOMAIN D

C19_Witness ==
    /\ Returned("ApplyFDBs") /\ again = "ok"
    /\ ZeroMACs(D) /\ \A k \in DOMAIN D : D[k].LinkIndex = scope
    /\ Cardinality(DOMAIN D) = 2
    /\ \E n \in neighs : n.HardwareAddr # AllZeroMAC /\ n.LinkIndex = scope

\* C20: an ApplyRoutes call never aborts while comparing the two routes of a
\* key of both mappings, whatever the routes (a route without destination
\* prefix or without gateway included); it issues at most one transport
\* operation per key of C and D, and ends by returning nil or the aggregated
\* error.
C20_ApplyRoutesAlwaysReturns ==
    fn = "ApplyRoutes" =>
        /\ pc # "panic"
        /\ \A k \in DOMAIN C \cup DOMAIN D : Cardinality(OpsOn(k)) <= 1
        /\ \A i \in 1..Len(ops) : ops[i].key \in DOMAIN C \cup DOMAIN D
        /\ pc = "done" => ret = AsError(errList)

====
